---- MODULE Spec2Model ----
(***************************************************************************)
(* smcHash (src/rust/src/lib.rs): the hash kernel smchash / smchash_seeded *)
(* / smchash_secret and the generator smc_rand.                            *)
(*                                                                         *)
(* A u64 is the tuple of its 8 bytes, least significant first (a[1] is     *)
(* bits 0..7), a u128 product the tuple of its 16 bytes: every operation   *)
(* keeps the full 64-bit (128-bit) width.  A byte buffer is the sequence   *)
(* of its bytes; offsets are 0-based as in the source.                     *)
(***************************************************************************)
EXTENDS Integers, Sequences, FiniteSets

\* ------------------------------------------------------------- u64 words

Bit(x, k) == (x \div (2 ^ k)) % 2

\* x ^ y on 4-bit values, bit by bit
XorNib == [x \in 0..15 |-> [y \in 0..15 |->
             ((Bit(x, 0) + Bit(y, 0)) % 2)
           + ((Bit(x, 1) + Bit(y, 1)) % 2) * 2
           + ((Bit(x, 2) + Bit(y, 2)) % 2) * 4
           + ((Bit(x, 3) + Bit(y, 3)) % 2) * 8]]

XorByte(x, y) == XorNib[x \div 16][y \div 16] * 16 + XorNib[x % 16][y % 16]

\* a ^ b on u64
Xor(a, b) == [k \in 1..8 |-> XorByte(a[k], b[k])]

Zero64 == <<0, 0, 0, 0, 0, 0, 0, 0>>

\* A u64 written as its four 16-bit groups, most significant first, as the
\* hexadecimal literal of the source reads.
W16(h3, h2, h1, h0) ==
    <<h0 % 256, h0 \div 256, h1 % 256, h1 \div 256,
      h2 % 256, h2 \div 256, h3 % 256, h3 \div 256>>

\* `n as u64` for a length or a small literal (n < 2^31)
U64(n) ==
    <<n % 256, (n \div 256) % 256, (n \div 65536) % 256,
      (n \div 16777216) % 256, 0, 0, 0, 0>>

\* u64::wrapping_add
RECURSIVE AddFrom(_, _, _, _)
AddFrom(a, b, k, carry) ==
    IF k > 8 THEN <<>>
    ELSE LET s == a[k] + b[k] + carry
         IN  <<s % 256>> \o AddFrom(a, b, k + 1, s \div 256)

wrapping_add(a, b) == AddFrom(a, b, 1, 0)

\* (a as u128) * (b as u128): the 16 bytes of the exact product
RECURSIVE ColSum(_, _, _, _)
ColSum(a, b, k, i) ==
    \* sum of a[i] * b[j] over byte positions i + j = k (0-based), from i up
    IF i > 7 \/ i > k THEN 0
    ELSE (IF k - i <= 7 THEN a[i + 1] * b[k - i + 1] ELSE 0) + ColSum(a, b, k, i + 1)

RECURSIVE MulFrom(_, _, _, _)
MulFrom(a, b, k, carry) ==
    IF k > 15 THEN <<>>
    ELSE LET s == ColSum(a, b, k, IF k > 7 THEN k - 7 ELSE 0) + carry
         IN  <<s % 256>> \o MulFrom(a, b, k + 1, s \div 256)

Mul128(a, b) == MulFrom(a, b, 0, 0)

\* r as u64
Lo64(r) == [k \in 1..8 |-> r[k]]

\* (r >> 64) as u64
Hi64(r) == [k \in 1..8 |-> r[k + 8]]

\* ------------------------------------------------------------- primitives

\* const SMC_SECRET: [u64; 9]
SMC_SECRET ==
    << W16(\H9ad1, \He8e2, \Haa5a, \H5c4b),
       W16(\Haaaa, \Hd233, \H5647, \Hd21b),
       W16(\Hb8ac, \H35e2, \H69d1, \Hb495),
       W16(\Ha98d, \H653c, \Hb2b4, \Hc959),
       W16(\H71a5, \Hb853, \Hb43c, \Ha68b),
       W16(\H2b55, \H934d, \Hc35c, \H9655),
       W16(\H746a, \He48e, \Hd4d4, \H1e4d),
       W16(\Ha3d8, \Hc38e, \H78aa, \Ha6a9),
       W16(\H1bca, \H69c5, \H6565, \H8bc3) >>

\* tab[k] with the source's 0-based index
Sec(tab, k) == tab[k + 1]

mix(a, b) ==
    LET r == Mul128(a, b)
    IN  Xor(Lo64(r), Hi64(r))

\* mum with b left holding the low half of the product
mumLow(a, b) ==
    LET r == Mul128(a, b)
    IN  [a |-> Xor(Lo64(r), Hi64(r)), b |-> Lo64(r)]

\* mum(&mut a, &mut b): the values left in a and b
mum(a, b) ==
    LET r == Mul128(a, b)
    IN  [a |-> Xor(Lo64(r), Hi64(r)), b |-> Hi64(r)]

\* read64(&d[off..]): u64::from_le_bytes of the 8 bytes at off
read64(d, off) == [k \in 1..8 |-> d[off + k]]

\* read32(&d[off..]) as u64: u32::from_le_bytes of the 4 bytes at off, widened
read32(d, off) == [k \in 1..8 |-> IF k <= 4 THEN d[off + k] ELSE 0]

\* ((p[0] as u64) << 56) | ((p[len >> 1] as u64) << 32) | (p[len - 1] as u64)
Pick3(d, len) ==
    LET b0 == d[(len - 1) + 1]
        b4 == d[(len \div 2) + 1]
        b7 == d[0 + 1]
    IN  [k \in 1..8 |-> CASE k = 1 -> b0 [] k = 5 -> b4 [] k = 8 -> b7 [] OTHER -> 0]

\* The slice &d[off..] and its first n bytes exist; otherwise the read panics.
InBounds(d, off, n) == off >= 0 /\ off + n <= Len(d)

\* ------------------------------------------------------------- hash steps

\* line 155 / 280: seed ^= mix(seed ^ S[0], S[1] ^ len)
ShortSeed(tab, sd, len) ==
    Xor(sd, mix(Xor(sd, Sec(tab, 0)), Xor(Sec(tab, 1), U64(len))))

\* line 179: seed ^= mix(seed ^ SMC_SECRET[2], SMC_SECRET[1])
LongSeedSeeded(sd) ==
    Xor(sd, mix(Xor(sd, Sec(SMC_SECRET, 2)), Sec(SMC_SECRET, 1)))

\* line 304: seed ^= mix(seed ^ secret[0], secret[1])
LongSeedSecret(sd, sec) ==
    Xor(sd, mix(Xor(sd, Sec(sec, 0)), Sec(sec, 1)))

\* The length classes with the 4..7 byte class sent to the 8-byte reads
ShortClassNoW32(len) ==
    IF len >= 4 THEN "w64" ELSE IF len > 0 THEN "b3" ELSE "empty"

\* The length class of the short path (lines 157-171): which reads it makes.
ShortClass(len) ==
    IF len >= 4 THEN (IF len >= 8 THEN "w64" ELSE "w32")
    ELSE IF len > 0 THEN "b3" ELSE "empty"

\* The reads <<offset, width>> of a length class
ShortReads(cls, len) ==
    CASE cls = "w64" -> {<<0, 8>>, <<len - 8, 8>>}
      [] cls = "w32" -> {<<0, 4>>, <<len - 4, 4>>}
      [] cls = "b3"  -> {<<0, 1>>, <<len \div 2, 1>>, <<len - 1, 1>>}
      [] OTHER       -> {}

\* One lane step: mix(read64(&p[16k..]) ^ S[k], read64(&p[16k + 8..]) ^ e)
Lane(tab, d, off, k, e) ==
    mix(Xor(read64(d, off + 16 * k), Sec(tab, k)),
        Xor(read64(d, off + 16 * k + 8), e))

\* The reads of lanes 0..n-1 of the block at off
LaneReads(off, n) ==
    UNION {{<<off + 16 * k, 8>>, <<off + 16 * k + 8, 8>>} : k \in 0..(n - 1)}

\* Lanes 0..n-1 applied one after the other to the same seed (the residuals)
RECURSIVE Chain(_, _, _, _, _, _)
Chain(tab, d, off, k, n, e) ==
    IF k >= n THEN e ELSE Chain(tab, d, off, k + 1, n, Lane(tab, d, off, k, e))

\* The first tail read taken at len - 8 like the second
TailOffALate(len) == len - 8

\* The tail reads of the long path: &data[len - 16..] and &data[len - 8..]
TailOffA(len) == len - 16

TailOffB(len) == len - 8

\* The closing steps without b ^= seed
FinishNoSeed(tab, wa, wb, sd, len) ==
    LET m == mum(Xor(wa, Sec(tab, 1)), wb)
    IN  mix(Xor(m.a, Sec(tab, 8)), Xor(Xor(m.b, Sec(tab, 1)), U64(len)))

\* The closing steps without the length in the last mix
FinishNoLen(tab, wa, wb, sd, len) ==
    LET m == mum(Xor(wa, Sec(tab, 1)), Xor(wb, sd))
    IN  mix(Xor(m.a, Sec(tab, 8)), Xor(m.b, Sec(tab, 1)))

\* lines 173-176 / 231-234: the closing mum and mix
Finish(tab, wa, wb, sd, len) ==
    LET m == mum(Xor(wa, Sec(tab, 1)), Xor(wb, sd))
    IN  mix(Xor(m.a, Sec(tab, 8)), Xor(Xor(m.b, Sec(tab, 1)), U64(len)))

AllInBounds(d, rs) == \A r \in rs : InBounds(d, r[1], r[2])

\* ------------------------------------------------------------- inputs

\* Longest buffer hashed
MaxLen == 256

\* The bytes 0, 1, 2, ... of tests::test_different_lengths
Ramp(len) == [k \in 1..len |-> (k - 1) % 256]

\* Another pattern, different from Ramp in every byte
Alt(len) == [k \in 1..len |-> (251 * k + 90) % 256]

\* d with the 8 bytes at off replaced by the bytes of w
Overwrite(d, off, w) ==
    [k \in 1..Len(d) |-> IF off < k /\ k <= off + 8 THEN w[k - off] ELSE d[k]]

\* A buffer (len >= 8) whose first finaliser word cancels SMC_SECRET[1]: the
\* word at 0 is S[1] (len <= 16), the word at len - 16 is S[1] ^ len (len > 16).
ZeroA(len) ==
    IF len <= 16 THEN Overwrite(Alt(len), 0, Sec(SMC_SECRET, 1))
    ELSE Overwrite(Alt(len), len - 16, Xor(Sec(SMC_SECRET, 1), U64(len)))

\* A 16-byte buffer whose last word equals the short path's updated seed
ZeroB(sd) == Overwrite(Ramp(16), 8, ShortSeed(SMC_SECRET, sd, 16))

\* b"Hello, World!"
Hello == <<72, 101, 108, 108, 111, 44, 32, 87, 111, 114, 108, 100, 33>>

\* b"data"
DataBuf == <<100, 97, 116, 97>>

Seeds == {U64(1), U64(2)}

\* The buffers of a length: two that differ in every byte (one, the empty
\* buffer, for length 0), and the documented examples
BuffersOfLen(len) ==
    {Ramp(len)}
    \cup (IF len = 0 THEN {} ELSE IF len < 8 THEN {Alt(len)} ELSE {ZeroA(len)})
    \cup (IF len = 16 THEN {ZeroB(sd) : sd \in Seeds} ELSE {})
    \cup (IF len = Len(Hello) THEN {Hello} ELSE {})
    \cup (IF len = Len(DataBuf) THEN {DataBuf} ELSE {})

Buffers == UNION {BuffersOfLen(len) : len \in 0..MaxLen}

\* A caller's table for smchash_secret other than the built-in one
OtherSecret == [k \in 1..9 |-> SMC_SECRET[10 - k]]

\* The argument lists of a call: the entry point, the buffer, the seed and the
\* secret table where the entry point takes one.
Args(f, d, sd, t) == [fn |-> f, data |-> d, seed |-> sd, secret |-> t]

Tables == {SMC_SECRET, OtherSecret}

\* The first call of a run is smchash or smchash_seeded.
FirstArgs ==
    {Args("smchash_seeded", d, sd, <<>>) : d \in Buffers, sd \in Seeds}
    \cup {Args("smchash_seeded", Hello, U64(12345), <<>>)}
    \cup {Args("smchash", d, Zero64, <<>>) : d \in {Ramp(0), Hello, DataBuf}}

\* The second call hashes a buffer of the given length with smchash_seeded or
\* smchash_secret.
SecondArgs(len) ==
    {Args("smchash_seeded", d, sd, <<>>) : d \in BuffersOfLen(len), sd \in Seeds}
    \cup {Args("smchash_secret", d, sd, t) :
            d \in BuffersOfLen(len), sd \in Seeds, t \in Tables}

\* ------------------------------------------------------------- state

VARIABLES
    call,     \* 1 or 2: the first or the second call of the run
    fn,       \* the entry point called
    data,     \* the buffer
    seed0,    \* the seed argument as passed
    secret,   \* the secret argument (smchash_secret only)
    seed,     \* mut seed
    p,        \* offset of the slice p in data
    i,        \* remaining length i
    see,      \* <<see1, ..., see7>> once the bulk phase declared them
    a, b,     \* the words a and b before the closing mum
    pc,       \* the statement about to run
    result,   \* the returned u64
    reads,    \* every read made, as <<offset, width>>
    path,     \* the branches taken, in order
    first,    \* arguments and outcome of the first call, once it returned
    rng,      \* the caller's generator state, the u64 behind smc_rand's &mut seed
    outs,     \* the values smc_rand returned, in order
    hist      \* the generator states so far, the initial one first

hashVars == <<call, fn, data, seed0, secret, seed, p, i, see, a, b, pc, result,
              reads, path, first>>

rngVars == <<rng, outs, hist>>

vars == <<hashVars, rngVars>>

\* ------------------------------------------------------------- calls

NoCall ==
    [fn |-> "none", data |-> <<>>, seed0 |-> Zero64, secret |-> <<>>,
     pc |-> "none", result |-> <<>>, reads |-> {}, path |-> <<>>]

\* The table the body reads: SMC_SECRET, or the argument in smchash_secret
Tab == IF fn = "smchash_secret" THEN secret ELSE SMC_SECRET

Enter(args) ==
    /\ fn = args.fn
    /\ data = args.data
    /\ seed0 = args.seed
    /\ secret = args.secret
    /\ seed = args.seed
    /\ p = 0
    /\ i = 0
    /\ see = <<>>
    /\ a = <<>>
    /\ b = <<>>
    /\ pc = IF args.fn = "smchash" THEN "call" ELSE "entry"
    /\ result = <<>>
    /\ reads = {}
    /\ path = <<>>

\* A run of hash calls: the generator is not used.
Init ==
    /\ call = 1
    /\ first = NoCall
    /\ \E args \in FirstArgs : Enter(args)
    /\ rng = Zero64
    /\ outs = <<>>
    /\ hist = <<>>

\* ------------------------------------------------------------- actions

\* The branch conditions of the long path, changed: a residual taken at
\* exactly 64, and a 16-byte residual that looks at the block's first byte
Take64Ge(rem) == rem >= 64

Take16Data(rem) == rem > 16 /\ data[p + 1] > 3

\* while i > 128
LoopAgain(rem) == rem > 128

\* if i > 64 / if i > 32 / if i > 16
Take64(rem) == rem > 64

Take32(rem) == rem > 32

Take16(rem) == rem > 16

\* smchash(data): smchash_seeded(data, SMC_SECRET[0])
smchash ==
    /\ pc = "call"
    /\ seed' = Sec(SMC_SECRET, 0)
    /\ pc' = "entry"
    /\ UNCHANGED <<call, fn, data, seed0, secret, p, i, see, a, b, result,
                   reads, path, first>>
    /\ UNCHANGED rngVars

\* if len <= 16 { seed ^= mix(seed ^ S[0], S[1] ^ len); ...
ShortInit ==
    /\ pc = "entry"
    /\ Len(data) <= 16
    /\ seed' = ShortSeed(Tab, seed, Len(data))
    /\ path' = Append(path, "short")
    /\ pc' = "short_words"
    /\ UNCHANGED <<call, fn, data, seed0, secret, p, i, see, a, b, result,
                   reads, first>>
    /\ UNCHANGED rngVars

\* the extraction of a and b by length class
ShortWords ==
    /\ pc = "short_words"
    /\ LET len == Len(data)
           cls == ShortClass(len)
           rs  == ShortReads(cls, len)
       IN  /\ reads' = reads \cup rs
           /\ path' = Append(path, cls)
           /\ IF AllInBounds(data, rs)
              THEN /\ a' = CASE cls = "w64" -> read64(data, p)
                             [] cls = "w32" -> read32(data, p)
                             [] cls = "b3"  -> Pick3(data, len)
                             [] OTHER       -> Zero64
                   /\ b' = CASE cls = "w64" -> read64(data, p + (len - 8))
                             [] cls = "w32" -> read32(data, p + (len - 4))
                             [] OTHER       -> Zero64
                   /\ pc' = "short_final"
              ELSE /\ pc' = "panic"
                   /\ UNCHANGED <<a, b>>
    /\ UNCHANGED <<call, fn, data, seed0, secret, seed, p, i, see, result, first>>
    /\ UNCHANGED rngVars

\* a ^= S[1]; b ^= seed; mum(a, b); return mix(a ^ S[8], b ^ S[1] ^ len)
Final ==
    /\ pc \in {"short_final", "final"}
    /\ result' = Finish(Tab, a, b, seed, Len(data))
    /\ pc' = "done"
    /\ UNCHANGED <<call, fn, data, seed0, secret, seed, p, i, see, a, b, reads,
                   path, first>>
    /\ UNCHANGED rngVars

\* seed ^= mix(seed ^ S[2 or 0], S[1]); let mut i = len;
LongInit ==
    /\ pc = "entry"
    /\ Len(data) > 16
    /\ seed' = IF fn = "smchash_secret" THEN LongSeedSecret(seed, secret)
               ELSE LongSeedSeeded(seed)
    /\ i' = Len(data)
    /\ path' = Append(path, "long")
    /\ pc' = "bulk"
    /\ UNCHANGED <<call, fn, data, seed0, secret, p, see, a, b, result, reads,
                   first>>
    /\ UNCHANGED rngVars

\* if len > 128 { let mut see1 = seed; ... let mut see7 = seed;
BulkEnter ==
    /\ pc = "bulk"
    /\ IF Len(data) > 128
       THEN /\ see' = [k \in 1..7 |-> seed]
            /\ path' = Append(path, "bulk")
            /\ pc' = "loop"
       ELSE /\ pc' = "res64"
            /\ UNCHANGED <<see, path>>
    /\ UNCHANGED <<call, fn, data, seed0, secret, seed, p, i, a, b, result,
                   reads, first>>
    /\ UNCHANGED rngVars

\* while i > 128 { eight lanes; p = &p[128..]; i -= 128; }
BulkIter ==
    /\ pc = "loop"
    /\ LoopAgain(i)
    /\ LET rs == LaneReads(p, 8)
       IN  /\ reads' = reads \cup rs
           /\ path' = Append(path, "iter")
           /\ IF AllInBounds(data, rs) /\ p + 128 <= Len(data)
              THEN /\ seed' = Lane(Tab, data, p, 0, seed)
                   /\ see' = [k \in 1..7 |-> Lane(Tab, data, p, k, see[k])]
                   /\ p' = p + 128
                   /\ i' = i - 128
                   /\ pc' = "loop"
              ELSE /\ pc' = "panic"
                   /\ UNCHANGED <<seed, see, p, i>>
    /\ UNCHANGED <<call, fn, data, seed0, secret, a, b, result, first>>
    /\ UNCHANGED rngVars

\* seed ^= see1 ^ see4 ^ see5; see2 ^= see3 ^ see6 ^ see7; seed ^= see2;
BulkFold ==
    /\ pc = "loop"
    /\ ~LoopAgain(i)
    /\ LET s1 == Xor(seed, Xor(Xor(see[1], see[4]), see[5]))
           s2 == Xor(see[2], Xor(Xor(see[3], see[6]), see[7]))
       IN  /\ seed' = Xor(s1, s2)
           /\ see' = [see EXCEPT ![2] = s2]
    /\ path' = Append(path, "fold")
    /\ pc' = "res64"
    /\ UNCHANGED <<call, fn, data, seed0, secret, p, i, a, b, result, reads,
                   first>>
    /\ UNCHANGED rngVars

\* A residual of n lanes (16 n bytes) that advances p and i by adv bytes
Residual(label, n, adv, next) ==
    LET rs == LaneReads(p, n)
    IN  /\ reads' = reads \cup rs
        /\ path' = Append(path, label)
        /\ IF AllInBounds(data, rs) /\ p + adv <= Len(data)
           THEN /\ seed' = Chain(Tab, data, p, 0, n, seed)
                /\ p' = p + adv
                /\ i' = i - adv
                /\ pc' = next
           ELSE /\ pc' = "panic"
                /\ UNCHANGED <<seed, p, i>>

Skip(next) ==
    /\ pc' = next
    /\ UNCHANGED <<seed, p, i, reads, path>>

\* if i > 64 { four lanes; p = &p[64..]; i -= 64; }
Res64 ==
    /\ pc = "res64"
    /\ IF Take64(i) THEN Residual("res64", 4, 64, "res32") ELSE Skip("res32")
    /\ UNCHANGED <<call, fn, data, seed0, secret, see, a, b, result, first>>
    /\ UNCHANGED rngVars

\* if i > 32 { two lanes; p = &p[32..]; i -= 32; }
Res32 ==
    /\ pc = "res32"
    /\ IF Take32(i) THEN Residual("res32", 2, 32, "res16") ELSE Skip("res16")
    /\ UNCHANGED <<call, fn, data, seed0, secret, see, a, b, result, first>>
    /\ UNCHANGED rngVars

\* if i > 16 { one lane } : p and i stay
Res16 ==
    /\ pc = "res16"
    /\ IF Take16(i) THEN Residual("res16", 1, 0, "tail") ELSE Skip("tail")
    /\ UNCHANGED <<call, fn, data, seed0, secret, see, a, b, result, first>>
    /\ UNCHANGED rngVars

\* a = read64(&data[len - 16..]) ^ len; b = read64(&data[len - 8..]);
TailWords ==
    /\ pc = "tail"
    /\ LET len == Len(data)
           rs  == {<<TailOffA(len), 8>>, <<TailOffB(len), 8>>}
       IN  /\ reads' = reads \cup rs
           /\ path' = Append(path, "tail")
           /\ IF AllInBounds(data, rs)
              THEN /\ a' = Xor(read64(data, TailOffA(len)), U64(len))
                   /\ b' = read64(data, TailOffB(len))
                   /\ pc' = "final"
              ELSE /\ pc' = "panic"
                   /\ UNCHANGED <<a, b>>
    /\ UNCHANGED <<call, fn, data, seed0, secret, seed, p, i, see, result, first>>
    /\ UNCHANGED rngVars

\* The caller makes a second call on a buffer of the same length.
SecondCall ==
    /\ call = 1
    /\ pc = "done"
    /\ call' = 2
    /\ first' = [fn |-> fn, data |-> data, seed0 |-> seed0, secret |-> secret,
                 pc |-> pc, result |-> result, reads |-> reads, path |-> path]
    /\ \E args \in SecondArgs(Len(data)) :
          /\ fn' = args.fn
          /\ data' = args.data
          /\ seed0' = args.seed
          /\ secret' = args.secret
          /\ seed' = args.seed
          /\ p' = 0
          /\ i' = 0
          /\ see' = <<>>
          /\ a' = <<>>
          /\ b' = <<>>
          /\ pc' = "entry"
          /\ result' = <<>>
          /\ reads' = {}
          /\ path' = <<>>
    /\ UNCHANGED rngVars

Next ==
    \/ smchash
    \/ ShortInit
    \/ ShortWords
    \/ LongInit
    \/ BulkEnter
    \/ BulkIter
    \/ BulkFold
    \/ Res64
    \/ Res32
    \/ Res16
    \/ TailWords
    \/ Final
    \/ SecondCall

Spec == Init /\ [][Next]_vars

\* ------------------------------------------------------------- smc_rand

\* Calls made on one generator state
MaxCalls == 6

\* Initial generator states 0..MaxRandSeed, besides the special ones
MaxRandSeed == 4095

Ones64 == <<255, 255, 255, 255, 255, 255, 255, 255>>

\* a - b on u64, to name initial states
Sub64(x, y) == wrapping_add(x, wrapping_add(Xor(y, Ones64), U64(1)))

\* Initial states: the small ones, the examples' 42 and 12345, the largest
\* value, and those from which the state passes through 0 or SMC_SECRET[1]
\* (where an operand of mix is 0) on the first or the second call.
RandStates ==
    {U64(n) : n \in 0..MaxRandSeed}
    \cup {U64(12345), Ones64}
    \cup {Sub64(Zero64, Sec(SMC_SECRET, 0)),
          Sub64(Sub64(Zero64, Sec(SMC_SECRET, 0)), Sec(SMC_SECRET, 0)),
          Sub64(Sec(SMC_SECRET, 1), Sec(SMC_SECRET, 0)),
          Sub64(Sub64(Sec(SMC_SECRET, 1), Sec(SMC_SECRET, 0)), Sec(SMC_SECRET, 0))}

\* The step with the state left as it was, and with the wrong constant
RandStepStuck(s) == s

RandStepWrongKey(s) == wrapping_add(s, Sec(SMC_SECRET, 1))

\* *seed = seed.wrapping_add(SMC_SECRET[0])
RandStep(s) == wrapping_add(s, Sec(SMC_SECRET, 0))

\* mix(*seed, *seed ^ SMC_SECRET[1])
RandOut(s) == mix(s, Xor(s, Sec(SMC_SECRET, 1)))

\* A run of smc_rand calls on one state: no hash call is made.
InitRand ==
    /\ call = 0
    /\ first = NoCall
    /\ fn = "none"
    /\ data = <<>>
    /\ seed0 = Zero64
    /\ secret = <<>>
    /\ seed = Zero64
    /\ p = 0
    /\ i = 0
    /\ see = <<>>
    /\ a = <<>>
    /\ b = <<>>
    /\ pc = "idle"
    /\ result = <<>>
    /\ reads = {}
    /\ path = <<>>
    /\ rng \in RandStates
    /\ outs = <<>>
    /\ hist = <<rng>>

smc_rand ==
    /\ pc = "idle"
    /\ Len(outs) < MaxCalls
    /\ rng' = RandStep(rng)
    /\ outs' = Append(outs, RandOut(rng'))
    /\ hist' = Append(hist, rng')
    /\ UNCHANGED hashVars

NextRand == smc_rand

SpecRand == InitRand /\ [][NextRand]_vars

\* ------------------------------------------------------------- properties

InPath(l) == \E k \in 1..Len(path) : path[k] = l

Count(l) == Cardinality({k \in 1..Len(path) : path[k] = l})

IsPrefix(s, t) == Len(s) <= Len(t) /\ \A k \in 1..Len(s) : s[k] = t[k]

Returned == pc = "done"

\* The second call returned and repeats the first call's buffer
SameBuffer == call = 2 /\ Returned /\ first.data = data

\* C1: smchash_secret called with the built-in table returns what
\* smchash_seeded returns for the same buffer and seed, for every length.
C1_RoundTrip ==
    (SameBuffer /\ first.fn = "smchash_seeded" /\ fn = "smchash_secret"
        /\ secret = SMC_SECRET /\ seed0 = first.seed0)
    => result = first.result

\* C2: every read of a call in either function lies inside [0, L): no call
\* panics and no recorded read starts before 0 or ends after L.
C2_ReadsInBounds ==
    /\ pc # "panic"
    /\ \A r \in reads : r[1] >= 0 /\ r[1] + r[2] <= Len(data)

C2_Witness ==
    /\ Returned
    /\ fn = "smchash_secret"
    /\ Len(data) = MaxLen
    /\ <<Len(data) - 8, 8>> \in reads
    /\ <<0, 8>> \in reads

C5_LinearCounter ==
    pc = "idle" =>
        LET n == Len(outs)
        IN  /\ Len(hist) = n + 1
            /\ rng = hist[n + 1]
            /\ rng = wrapping_add(hist[1], Lo64(Mul128(U64(n), Sec(SMC_SECRET, 0))))
            /\ \A k \in 1..n :
                  outs[k] = mix(hist[k + 1], Xor(hist[k + 1], Sec(SMC_SECRET, 1)))
            /\ Sec(SMC_SECRET, 0)[1] % 2 = 1
            /\ \A j, k \in 1..(n + 1) : j # k => hist[j] # hist[k]

C5_Witness == Len(outs) = MaxCalls /\ hist[1] = Ones64

\* C6: two calls on buffers of equal length follow the same branches and
\* make the same reads, whatever the bytes, the seeds, the secrets and the
\* entry points.
C6_PathByLength ==
    (call = 2 /\ Len(data) = Len(first.data)) =>
        /\ IsPrefix(path, first.path)
        /\ reads \subseteq first.reads
        /\ Returned => (path = first.path /\ reads = first.reads)

C6_Witness ==
    /\ call = 2
    /\ Returned
    /\ Len(data) > 128
    /\ \A k \in 1..Len(data) : data[k] # first.data[k]
    /\ seed0 # first.seed0
    /\ fn = "smchash_secret"
    /\ secret = OtherSecret
    /\ InPath("iter")
    /\ InPath("res16")

\* C7: smchash(b"Hello, World!") = 0x25bb0982c5c0de6e and
\* smchash_seeded(b"Hello, World!", 12345) = 0xd26cb494f911af5b.
C7_ReferenceVectors ==
    /\ (Returned /\ fn = "smchash" /\ data = Hello)
          => result = W16(\H25bb, \H0982, \Hc5c0, \Hde6e)
    /\ (Returned /\ fn = "smchash_seeded" /\ data = Hello /\ seed0 = U64(12345))
          => result = W16(\Hd26c, \Hb494, \Hf911, \Haf5b)

C7_Witness ==
    /\ Returned
    /\ fn = "smchash"
    /\ data = Hello
    /\ path = <<"short", "w64">>

\* C8: on the long path p + i = L throughout; the bulk loop runs only for
\* L > 128, exactly floor((L - 1) / 128) times, and leaves 1 <= i <= 128; the
\* 64-, 32- and 16-byte residuals run exactly when the remainder is above 64,
\* 32 and 16 (a remainder of exactly 64 skips the 64-byte one), the last
\* without moving p; the finaliser is reached with 1 <= i <= 32.
C8_LongPathShape ==
    (Len(data) > 16 /\ pc \notin {"call", "entry", "panic", "idle"}) =>
        LET L   == Len(data)
            n   == (L - 1) \div 128
            r64 == L - 128 * n
            r32 == IF r64 > 64 THEN r64 - 64 ELSE r64
            r16 == IF r32 > 32 THEN r32 - 32 ELSE r32
            past64 == {"res32", "res16", "tail", "final", "done"}
            past32 == {"res16", "tail", "final", "done"}
            past16 == {"tail", "final", "done"}
        IN  /\ p + i = L
            /\ InPath("iter") => L > 128
            /\ pc # "bulk" => (InPath("bulk") <=> L > 128)
            /\ pc = "loop" => (i >= 1 /\ Count("iter") <= n /\ p = 128 * Count("iter"))
            /\ pc \in {"res64"} \cup past64 => Count("iter") = n
            /\ pc = "res64" => (i = r64 /\ 1 <= i /\ i <= 128)
            /\ pc \in past64 => (InPath("res64") <=> r64 > 64)
            /\ (pc \in past64 /\ r64 = 64) => ~InPath("res64")
            /\ pc = "res32" => i = r32
            /\ pc \in past32 => (InPath("res32") <=> r32 > 32)
            /\ pc \in past32 => (i = r16 /\ p = L - r16 /\ 1 <= i /\ i <= 32)
            /\ pc \in past16 => (InPath("res16") <=> r16 > 16)

C8_Witness ==
    /\ Returned
    /\ Len(data) = 192
    /\ Count("iter") = 1
    /\ ~InPath("res64")
    /\ InPath("res32")
    /\ InPath("res16")
    /\ i = 32

\* C9: when a call on a buffer of L >= 1 bytes returns, every offset in
\* [0, L) lies inside at least one read it made.
C9_EveryByteRead ==
    Returned =>
        \A k \in 0..(Len(data) - 1) :
            \E r \in reads : r[1] <= k /\ k < r[1] + r[2]

C9_Witness ==
    /\ Returned
    /\ Len(data) = 150
    /\ InPath("iter")
    /\ InPath("res16")
    /\ p = 128

\* C10: in smchash and smchash_seeded, when an operand of the closing mum is
\* zero (a ^ S[1] = 0 or b ^ seed = 0) the value returned is
\* mix(S[8], S[1] ^ L).
C10_ZeroOperand ==
    (Returned /\ fn \in {"smchash", "smchash_seeded"}
        /\ (Xor(a, Sec(SMC_SECRET, 1)) = Zero64 \/ Xor(b, seed) = Zero64))
    => result = mix(Sec(SMC_SECRET, 8), Xor(Sec(SMC_SECRET, 1), U64(Len(data))))

C10_Witness ==
    /\ call = 2
    /\ Returned
    /\ fn = "smchash_seeded"
    /\ first.fn = "smchash_seeded"
    /\ Len(data) > 16
    /\ data = first.data
    /\ seed0 # first.seed0
    /\ Xor(a, Sec(SMC_SECRET, 1)) = Zero64
    /\ result = first.result

====
